---------------------------- MODULE Spec2Model ----------------------------
(***************************************************************************)
(* examples/photon_noise_table.c: the photon-noise film grain table tool.  *)
(*                                                                         *)
(* The tool's arithmetic is C `float` (IEEE-754 binary32, round to nearest *)
(* even) and C `int` (32 bits).  Both are modelled at their width: a float *)
(* is a record [k, s, m, e] standing for s * m * 2^e, and every operation  *)
(* rounds its exact result to 24 significant bits as the hardware does.    *)
(*                                                                         *)
(* Each arithmetic operation is an operator over a function of the same    *)
(* name with an F appended (FMul over FMulF): applying a function          *)
(* evaluates its arguments once, however often the body reads them.        *)
(***************************************************************************)
EXTENDS Integers, Sequences, FiniteSets, TLC

(***************************************************************************)
(* binary32                                                                *)
(***************************************************************************)
\* k: "fin" | "inf" | "nan";  s: 1 | -1;  m: 0 .. 2^24-1;  e: exponent of
\* the unit in the last place.  Normal numbers have 2^23 <= m < 2^24 and
\* -149 <= e <= 104, subnormal ones m < 2^23 and e = -149, zero m = 0, e = 0.
Floats == [k : {"fin", "inf", "nan"}, s : {-1, 1}, m : Nat, e : Int]

FNaN == [k |-> "nan", s |-> 1, m |-> 0, e |-> 0]
FInf(sg) == [k |-> "inf", s |-> sg, m |-> 0, e |-> 0]
FZero(sg) == [k |-> "fin", s |-> sg, m |-> 0, e |-> 0]

IsNaN(a) == a.k = "nan"
IsInf(a) == a.k = "inf"
IsFin(a) == a.k = "fin"
IsZero(a) == a.k = "fin" /\ a.m = 0

\* Number of significant bits of n, 1 <= n < 2^31.
BitLenF[n \in Nat] ==
  IF n < 65536
    THEN IF n < 256
           THEN CHOOSE b \in 1..8 : 2^(b-1) <= n /\ n < 2^b
           ELSE CHOOSE b \in 9..16 : 2^(b-1) <= n /\ n < 2^b
    ELSE IF n < 16777216
           THEN CHOOSE b \in 17..24 : 2^(b-1) <= n /\ n < 2^b
           ELSE CHOOSE b \in 25..31 : 2^(b-1) <= n /\ (b = 31 \/ n < 2^b)
BitLen(n) == BitLenF[n]

\* n shifted right by sh bits, the bits shifted out OR-ed into the last bit
\* kept ("jamming"), so that a later rounding still sees them.
ShiftRightJamF[n \in Nat, sh \in Int] ==
  IF sh <= 0 THEN n
  ELSE IF sh >= 31 THEN (IF n = 0 THEN 0 ELSE 1)
  ELSE IF n % 2^sh # 0 /\ (n \div 2^sh) % 2 = 0 THEN (n \div 2^sh) + 1
  ELSE n \div 2^sh
ShiftRightJam(n, sh) == ShiftRightJamF[n, sh]

\* The last step of rounding: m has 24 mantissa bits, a guard bit and a
\* sticky bit, and stands for m * 2^(e - 2); ties go to even.
RoundBitsF[sg \in {-1, 1}, m \in Nat, e \in Int] ==
  LET q  == m \div 4
      r  == m % 4
      up == r = 3 \/ (r = 2 /\ q % 2 = 1)
  IN  IF q = 0 /\ ~up THEN FZero(sg)
      ELSE IF up /\ q + 1 = 16777216
        THEN (IF e + 1 > 104 THEN FInf(sg)
              ELSE [k |-> "fin", s |-> sg, m |-> 8388608, e |-> e + 1])
      ELSE IF e > 104 THEN FInf(sg)
      ELSE [k |-> "fin", s |-> sg, m |-> IF up THEN q + 1 ELSE q, e |-> e]

\* m has exactly 26 bits and stands for m * 2^e: a result below the normal
\* range first loses low bits (subnormal).
RoundAlignedF[sg \in {-1, 1}, m \in Nat, e \in Int] ==
  RoundBitsF[sg,
             IF e + 2 < -149 THEN ShiftRightJam(m, -149 - (e + 2)) ELSE m,
             IF e + 2 < -149 THEN -149 ELSE e + 2]

\* m, of len bits, brought to 26 bits.
RoundLenF[sg \in {-1, 1}, m \in Nat, e \in Int, sticky \in BOOLEAN, len \in Nat] ==
  RoundAlignedF[sg,
                IF len > 26
                  THEN ShiftRightJam(IF sticky /\ m % 2 = 0 THEN m + 1 ELSE m,
                                     len - 26)
                  ELSE m * 2^(26 - len)
                         + (IF sticky /\ (len < 26 \/ m % 2 = 0) THEN 1 ELSE 0),
                e + (len - 26)]

\* Round s * (m [+ something below the last bit, when sticky]) * 2^e to
\* binary32, ties to even.  m >= 1; when sticky, m has at least 26 bits.
RoundPackF[sg \in {-1, 1}, m \in Nat, e \in Int, sticky \in BOOLEAN] ==
  RoundLenF[sg, m, e, sticky, BitLen(m)]
RoundPack(sg, m, e, sticky) == RoundPackF[sg, m, e, sticky]

\* (float)n for a C int n.
FIntF[n \in Int] ==
  IF n = 0 THEN FZero(1)
  ELSE IF n = -2147483647 - 1 THEN [k |-> "fin", s |-> -1, m |-> 8388608, e |-> 8]
  ELSE RoundPack(IF n < 0 THEN -1 ELSE 1, IF n < 0 THEN -n ELSE n, 0, FALSE)
FInt(n) == FIntF[n]

\* A nonzero finite float with its mantissa brought to 24 bits (the exponent
\* of a subnormal goes below -149).
NormF[a \in Floats] ==
  IF a.m >= 8388608 THEN [m |-> a.m, e |-> a.e]
  ELSE [m |-> a.m * 2^(24 - BitLen(a.m)), e |-> a.e - (24 - BitLen(a.m))]
Norm(a) == NormF[a]

FNegF[a \in Floats] == IF a.k = "nan" THEN a ELSE [a EXCEPT !.s = -a.s]
FNeg(a) == FNegF[a]

\* The 48-bit product x * y of two 24-bit mantissas, as hi * 2^24 + lo,
\* from the four products of their 12-bit halves.
MulPartsF[hh \in Nat, mid \in Nat, ll \in Nat] ==
  LET low == ll + (mid % 4096) * 4096
  IN  [hi |-> hh + (mid \div 4096) + (low \div 16777216), lo |-> low % 16777216]
Mul48F[x \in Nat, y \in Nat] ==
  MulPartsF[(x \div 4096) * (y \div 4096),
            (x \div 4096) * (y % 4096) + (x % 4096) * (y \div 4096),
            (x % 4096) * (y % 4096)]

MulNorm(sg, p, e) ==
  RoundPack(sg, p.hi * 64 + (p.lo \div 262144), e + 18, p.lo % 262144 # 0)

\* a * b
FMulF[a \in Floats, b \in Floats] ==
  IF IsNaN(a) \/ IsNaN(b) THEN FNaN
  ELSE IF (IsInf(a) /\ IsZero(b)) \/ (IsZero(a) /\ IsInf(b)) THEN FNaN
  ELSE IF IsInf(a) \/ IsInf(b) THEN FInf(a.s * b.s)
  ELSE IF a.m = 0 \/ b.m = 0 THEN FZero(a.s * b.s)
  ELSE MulNorm(a.s * b.s, Mul48F[Norm(a).m, Norm(b).m], Norm(a).e + Norm(b).e)
FMul(a, b) == FMulF[a, b]

\* floor(x * 2^(7n) / y) for x < 2y and y < 2^24, with whether a remainder
\* is left: seven quotient bits a step.
DivBitsF[q \in Nat, r \in Nat, y \in Nat, n \in Nat] ==
  IF n = 0 THEN [q |-> q, sticky |-> r # 0]
  ELSE DivBitsF[q * 128 + ((r * 128) \div y), (r * 128) % y, y, n - 1]

DivNorm(sg, d, e) ==
  RoundPack(sg, d.q, e - 28, d.sticky)

\* a / b
FDivF[a \in Floats, b \in Floats] ==
  IF IsNaN(a) \/ IsNaN(b) THEN FNaN
  ELSE IF (IsInf(a) /\ IsInf(b)) \/ (IsZero(a) /\ IsZero(b)) THEN FNaN
  ELSE IF IsInf(a) \/ IsZero(b) THEN FInf(a.s * b.s)
  ELSE IF IsInf(b) \/ IsZero(a) THEN FZero(a.s * b.s)
  ELSE DivNorm(a.s * b.s,
               DivBitsF[Norm(a).m \div Norm(b).m, Norm(a).m % Norm(b).m,
                        Norm(b).m, 4],
               Norm(a).e - Norm(b).e)
FDiv(a, b) == FDivF[a, b]

\* big + small for finite nonzero operands, big.e >= small.e: three extra
\* bits below big's last place, small shifted to them.
AddSumF[sum \in Int, e \in Int] ==
  IF sum = 0 THEN FZero(1)
  ELSE RoundPack(IF sum < 0 THEN -1 ELSE 1, IF sum < 0 THEN -sum ELSE sum, e, FALSE)
AddOrderedF[big \in Floats, small \in Floats] ==
  AddSumF[big.s * (big.m * 8)
            + small.s * ShiftRightJam(small.m * 8, big.e - small.e),
          big.e - 3]

\* a + b
FAddF[a \in Floats, b \in Floats] ==
  IF IsNaN(a) \/ IsNaN(b) THEN FNaN
  ELSE IF IsInf(a) /\ IsInf(b) THEN (IF a.s = b.s THEN a ELSE FNaN)
  ELSE IF IsInf(a) THEN a
  ELSE IF IsInf(b) THEN b
  ELSE IF a.m = 0 /\ b.m = 0 THEN (IF a.s = -1 /\ b.s = -1 THEN FZero(-1) ELSE FZero(1))
  ELSE IF a.m = 0 THEN b
  ELSE IF b.m = 0 THEN a
  ELSE AddOrderedF[IF a.e >= b.e THEN a ELSE b, IF a.e >= b.e THEN b ELSE a]
FAdd(a, b) == FAddF[a, b]

FSub(a, b) == FAddF[a, FNeg(b)]

\* a < b, a == b, a <= b, a > b; every comparison with a NaN is false.
MagLt(x, y) ==
  IF x.k = "inf" THEN FALSE
  ELSE IF y.k = "inf" THEN TRUE
  ELSE x.e < y.e \/ (x.e = y.e /\ x.m < y.m)
FLtF[a \in Floats, b \in Floats] ==
  IF IsNaN(a) \/ IsNaN(b) THEN FALSE
  ELSE IF IsZero(a) /\ IsZero(b) THEN FALSE
  ELSE IF IsZero(a) THEN b.s = 1
  ELSE IF IsZero(b) THEN a.s = -1
  ELSE IF a.s # b.s THEN a.s = -1
  ELSE IF a.s = 1 THEN MagLt(a, b)
  ELSE MagLt(b, a)
FLt(a, b) == FLtF[a, b]
FEqF[a \in Floats, b \in Floats] ==
  IF IsNaN(a) \/ IsNaN(b) THEN FALSE
  ELSE (IsZero(a) /\ IsZero(b)) \/ a = b
FLeF[a \in Floats, b \in Floats] == FLtF[a, b] \/ FEqF[a, b]
FLe(a, b) == FLeF[a, b]
FGt(a, b) == FLtF[b, a]

\* The square root digit by digit, two radicand bits a step: 13 steps over
\* the (at most 26-bit) radicand m2 and 14 more to reach 27 bits.
SqrtBitsF[m2 \in Nat, i \in Int, root \in Nat, rem \in Nat] ==
  IF i < 0 THEN [root |-> root, sticky |-> rem # 0]
  ELSE IF rem * 4 + (IF i >= 14 THEN (m2 \div 2^(2 * (i - 14))) % 4 ELSE 0)
            >= 4 * root + 1
    THEN SqrtBitsF[m2, i - 1, 2 * root + 1,
                   rem * 4 + (IF i >= 14 THEN (m2 \div 2^(2 * (i - 14))) % 4 ELSE 0)
                     - (4 * root + 1)]
  ELSE SqrtBitsF[m2, i - 1, 2 * root,
                 rem * 4 + (IF i >= 14 THEN (m2 \div 2^(2 * (i - 14))) % 4 ELSE 0)]

SqrtNorm(r, e) ==
  RoundPack(1, r.root, e, r.sticky)

\* sqrtf(a), correctly rounded.
FSqrtF[a \in Floats] ==
  IF IsNaN(a) THEN FNaN
  ELSE IF IsZero(a) THEN a
  ELSE IF a.s = -1 THEN FNaN
  ELSE IF IsInf(a) THEN a
  \* an odd exponent gives one bit to the mantissa
  ELSE SqrtNorm(SqrtBitsF[(1 + (Norm(a).e % 2)) * Norm(a).m, 26, 0, 0],
                ((Norm(a).e - (Norm(a).e % 2)) \div 2) - 14)
FSqrt(a) == FSqrtF[a]

\* roundf(a): to the nearest integer, halfway cases away from zero.
FRoundfF[a \in Floats] ==
  IF ~IsFin(a) \/ a.m = 0 \/ a.e >= 0 THEN a
  ELSE IF -a.e >= 25 THEN FZero(a.s)
  ELSE LET ip == a.m \div 2^(-a.e)
           n  == IF 2 * (a.m % 2^(-a.e)) >= 2^(-a.e) THEN ip + 1 ELSE ip
       IN  IF n = 0 THEN FZero(a.s) ELSE RoundPack(a.s, n, 0, FALSE)
FRoundf(a) == FRoundfF[a]

\* (int)a: truncation toward zero.  The conversion of a NaN, an infinity or
\* a value outside int's range is undefined in C.  ub is what the build's
\* conversion instruction yields for a NaN: INT_MIN (x86 cvttss2si, which
\* yields it for every value out of range as well) or 0 (Arm fcvtzs, which
\* saturates a value out of range).
IntCastF[a \in Floats, ub \in Int] ==
  IF IsNaN(a) THEN ub
  ELSE IF IsFin(a) /\ a.m = 0 THEN 0
  ELSE IF IsFin(a) /\ a.s = -1 /\ a.e = 8 /\ a.m = 8388608 THEN -2147483647 - 1
  ELSE IF IsInf(a) \/ a.e >= 8
    THEN (IF ub = 0 /\ a.s = 1 THEN 2147483647 ELSE -2147483647 - 1)
  ELSE IF a.e >= 0 THEN a.s * (a.m * 2^a.e)
  ELSE IF -a.e >= 24 THEN 0
  ELSE a.s * (a.m \div 2^(-a.e))
IntCast(a, ub) == IntCastF[a, ub]

\* A decimal literal num/den (1 <= num, den < 2^30) as the compiler reads
\* it: the quotient developed bit by bit to 27 bits, then rounded once.
RatBitsF[q \in Nat, r \in Nat, den \in Nat, e \in Int] ==
  IF q >= 67108864 THEN RoundPack(1, q, e, r # 0)
  ELSE IF 2 * r >= den THEN RatBitsF[2 * q + 1, 2 * r - den, den, e - 1]
  ELSE RatBitsF[2 * q, 2 * r, den, e - 1]
FRat(num, den) == RatBitsF[num \div den, num % den, den, 0]

F0 == FZero(1)
F1 == FInt(1)
F2 == FInt(2)

(***************************************************************************)
(* libm: logf, exp, powf.  The library is not part of the tool's source;   *)
(* these evaluate the same functions in binary32 arithmetic (argument      *)
(* reduction by powers of two, then a series) with the library's special   *)
(* cases.  Logf and Expf agree with the library to one unit in the last    *)
(* place; Powf's relative error is about |y ln x| * 2^-24.                 *)
(***************************************************************************)
Ln2Hi == [k |-> "fin", s |-> 1, m |-> 11628928, e |-> -24]
Ln2Lo == FRat(9058, 1000000000)
InvLn2 == FRat(14426950, 10000000)

\* 1 + t2/3 + t2^2/5 + ... + t2^5/11, in Horner form
AtanhSeriesF[t2 \in Floats] ==
  FAdd(F1, FMul(t2,
    FAdd(FRat(1, 3), FMul(t2,
      FAdd(FRat(1, 5), FMul(t2,
        FAdd(FRat(1, 7), FMul(t2,
          FAdd(FRat(1, 9), FMul(t2, FRat(1, 11)))))))))))

\* ln f = 2t (1 + t^2/3 + ...) with t = (f - 1) / (f + 1)
LnSeriesF[t \in Floats] == FMul(FMul(F2, t), AtanhSeriesF[FMul(t, t)])

\* ln(f * 2^E) for sqrt(1/2) <= f < sqrt(2)
LnReducedF[f \in Floats, E \in Int] ==
  FAdd(FMul(FInt(E), Ln2Hi),
       FAdd(LnSeriesF[FDiv(FSub(f, F1), FAdd(f, F1))], FMul(FInt(E), Ln2Lo)))

\* ln of a finite a > 0
LnPosF[a \in Floats] ==
  LnReducedF[[k |-> "fin", s |-> 1, m |-> Norm(a).m,
              e |-> IF Norm(a).m < 11863283 THEN -23 ELSE -24],
             Norm(a).e + (IF Norm(a).m < 11863283 THEN 23 ELSE 24)]

\* logf(a)
LogfF[a \in Floats] ==
  IF IsNaN(a) THEN FNaN
  ELSE IF IsZero(a) THEN FInf(-1)
  ELSE IF a.s = -1 THEN FNaN
  ELSE IF IsInf(a) THEN a
  ELSE LnPosF[a]
Logf(a) == LogfF[a]

\* The Taylor series of e^r, |r| <= ln(2)/2, to r^9/9!, in Horner form
ExpSeriesF[r \in Floats] ==
  FAdd(F1, FMul(r,
    FAdd(F1, FMul(FDiv(r, F2),
      FAdd(F1, FMul(FDiv(r, FInt(3)),
        FAdd(F1, FMul(FDiv(r, FInt(4)),
          FAdd(F1, FMul(FDiv(r, FInt(5)),
            FAdd(F1, FMul(FDiv(r, FInt(6)),
              FAdd(F1, FMul(FDiv(r, FInt(7)),
                FAdd(F1, FMul(FDiv(r, FInt(8)),
                  FAdd(F1, FDiv(r, FInt(9)))))))))))))))))))

\* p * 2^n
ScaleF[p \in Floats, n \in Int] == RoundPack(1, p.m, p.e + n, FALSE)

\* e^z = 2^n e^r with z = n ln 2 + r
ExpReducedF[z \in Floats, n \in Int] ==
  ScaleF[ExpSeriesF[FSub(FSub(z, FMul(FInt(n), Ln2Hi)), FMul(FInt(n), Ln2Lo))], n]

\* e^z for a finite z
ExpFinF[z \in Floats] ==
  IF FGt(z, FInt(89)) THEN FInf(1)
  ELSE IF FLt(z, FInt(-104)) THEN F0
  ELSE ExpReducedF[z, IntCast(FRoundf(FMul(z, InvLn2)), 0)]

\* (float)exp(a)
ExpfF[a \in Floats] ==
  IF IsNaN(a) THEN FNaN
  ELSE IF IsInf(a) THEN (IF a.s = 1 THEN a ELSE F0)
  ELSE ExpFinF[a]
Expf(a) == ExpfF[a]

\* powf(x, y) for a finite y that is not an integer (every exponent the tool
\* passes is one): a negative base gives NaN.
PowfF[x \in Floats, y \in Floats] ==
  IF IsNaN(x) \/ IsNaN(y) THEN FNaN
  ELSE IF x = F1 THEN F1
  ELSE IF IsZero(x) THEN (IF y.s = 1 THEN F0 ELSE FInf(1))
  ELSE IF x.s = -1 THEN FNaN
  ELSE IF IsInf(x) THEN (IF y.s = 1 THEN x ELSE F0)
  ELSE ExpFinF[FMul(y, LnPosF[x])]
Powf(x, y) == PowfF[x, y]

(***************************************************************************)
(* C int                                                                   *)
(***************************************************************************)
\* The low 16 bits of x * y for 16-bit x and y.
MulLow16(x, y) == (x * (y % 256) + ((x * (y \div 256)) % 256) * 256) % 65536

\* a * b in 32-bit int arithmetic.  Signed overflow is undefined in C; the
\* multiply instruction every build emits keeps the low 32 bits.
IntMul(a, b) ==
  LET al == a % 65536
      ah == (a \div 65536) % 65536
      bl == b % 65536
      bh == (b \div 65536) % 65536
      \* al * bl = lo16 + 65536 * c
      t0 == al * (bl % 256)
      t1 == al * (bl \div 256)
      s0 == t0 + (t1 % 256) * 256
      lo16 == s0 % 65536
      c  == (s0 \div 65536) + (t1 \div 256)
      hi16 == (c + MulLow16(ah, bl) + MulLow16(al, bh)) % 65536
  IN  IF hi16 >= 32768 THEN (hi16 - 65536) * 65536 + lo16
      ELSE hi16 * 65536 + lo16

(***************************************************************************)
(* The transfer functions                                                  *)
(***************************************************************************)
maxf(a, b) == IF FGt(a, b) THEN a ELSE b
minf(a, b) == IF FLt(a, b) THEN a ELSE b

gamma22_to_linear(g) == Powf(g, FRat(22, 10))
gamma22_from_linear(l) == Powf(l, FDiv(F1, FRat(22, 10)))
gamma28_to_linear(g) == Powf(g, FRat(28, 10))
gamma28_from_linear(l) == Powf(l, FDiv(F1, FRat(28, 10)))

srgb_to_linear(srgb) ==
  IF FLe(srgb, FRat(4045, 100000)) THEN FDiv(srgb, FRat(1292, 100))
  ELSE Powf(FDiv(FAdd(srgb, FRat(55, 1000)), FRat(1055, 1000)), FRat(24, 10))
\* srgb_from_linear without the offset of its upper branch.
srgb_from_linear_unshifted(linear) ==
  IF FLe(linear, FRat(31308, 10000000)) THEN FMul(FRat(1292, 100), linear)
  ELSE FMul(FRat(1055, 1000), Powf(linear, FDiv(F1, FRat(24, 10))))
srgb_from_linear(linear) ==
  IF FLe(linear, FRat(31308, 10000000)) THEN FMul(FRat(1292, 100), linear)
  ELSE FSub(FMul(FRat(1055, 1000), Powf(linear, FDiv(F1, FRat(24, 10)))),
            FRat(55, 1000))

kPqM1 == FDiv(FInt(2610), FInt(16384))
kPqM2 == FDiv(FMul(FInt(128), FInt(2523)), FInt(4096))
kPqC1 == FDiv(FInt(3424), FInt(4096))
kPqC2 == FDiv(FMul(FInt(32), FInt(2413)), FInt(4096))
kPqC3 == FDiv(FMul(FInt(32), FInt(2392)), FInt(4096))
\* pq_to_linear's return expression, given its local pq_pow_inv_m2
pq_to_linear_return(pq_pow_inv_m2) ==
  Powf(FDiv(maxf(F0, FSub(pq_pow_inv_m2, kPqC1)),
            FSub(kPqC2, FMul(kPqC3, pq_pow_inv_m2))),
       FDiv(F1, kPqM1))
pq_to_linear(pq) == pq_to_linear_return(Powf(pq, FDiv(F1, kPqM2)))
\* pq_from_linear's return expression, given its local linear_pow_m1
pq_from_linear_return(linear_pow_m1) ==
  Powf(FDiv(FAdd(kPqC1, FMul(kPqC2, linear_pow_m1)),
            FAdd(F1, FMul(kPqC3, linear_pow_m1))),
       kPqM2)
pq_from_linear(linear) == pq_from_linear_return(Powf(linear, kPqM1))

kHlgA == FRat(17883277, 100000000)
kHlgB == FRat(28466892, 100000000)
kHlgC == FRat(55991073, 100000000)
\* The local `linear` of hlg_to_linear: the inverse OETF, before the OOTF.
\* The source spells the cast of exp's double result "(flout)"; it is read
\* as the (float) it stands for.
hlg_inverse_oetf(hlg) ==
  IF FLe(hlg, FRat(1, 2)) THEN FDiv(FMul(hlg, hlg), FInt(3))
  ELSE FDiv(FAdd(Expf(FDiv(FSub(hlg, kHlgC), kHlgA)), kHlgB), FInt(12))
hlg_to_linear(hlg) == Powf(hlg_inverse_oetf(hlg), FRat(12, 10))
\* The OETF hlg_from_linear applies to `linear` once the OOTF is undone.
hlg_oetf(linear) ==
  IF FLe(linear, FDiv(F1, FInt(12))) THEN FSqrt(FMul(FInt(3), linear))
  ELSE FAdd(FMul(kHlgA, Logf(FSub(FMul(FInt(12), linear), kHlgB))), kHlgC)
hlg_from_linear(linear) == hlg_oetf(Powf(linear, FDiv(F1, FRat(12, 10))))

\* transfer_function_t: a curve is named by its static struct.
Curves == {"kGamma22TransferFunction", "kGamma28TransferFunction",
           "kSRgbTransferFunction", "kPqTransferFunction",
           "kHlgTransferFunction"}

to_linear(tf, x) ==
  CASE tf = "kGamma22TransferFunction" -> gamma22_to_linear(x)
    [] tf = "kGamma28TransferFunction" -> gamma28_to_linear(x)
    [] tf = "kSRgbTransferFunction" -> srgb_to_linear(x)
    [] tf = "kPqTransferFunction" -> pq_to_linear(x)
    [] tf = "kHlgTransferFunction" -> hlg_to_linear(x)

from_linear(tf, x) ==
  CASE tf = "kGamma22TransferFunction" -> gamma22_from_linear(x)
    [] tf = "kGamma28TransferFunction" -> gamma28_from_linear(x)
    [] tf = "kSRgbTransferFunction" -> srgb_from_linear(x)
    [] tf = "kPqTransferFunction" -> pq_from_linear(x)
    [] tf = "kHlgTransferFunction" -> hlg_from_linear(x)

mid_tone(tf) ==
  CASE tf = "kGamma22TransferFunction" -> FRat(18, 100)
    [] tf = "kGamma28TransferFunction" -> FRat(18, 100)
    [] tf = "kSRgbTransferFunction" -> FRat(18, 100)
    [] tf = "kPqTransferFunction" -> FDiv(FInt(26), FInt(10000))
    [] tf = "kHlgTransferFunction" -> FDiv(FInt(26), FInt(1000))

\* find_transfer_function with a default that falls back to sRGB.
find_transfer_function_fallback(tc) ==
  CASE tc = "AOM_CICP_TC_BT_470_M" -> "kGamma22TransferFunction"
    [] tc = "AOM_CICP_TC_BT_470_B_G" -> "kGamma28TransferFunction"
    [] tc = "AOM_CICP_TC_SRGB" -> "kSRgbTransferFunction"
    [] tc = "AOM_CICP_TC_SMPTE_2084" -> "kPqTransferFunction"
    [] tc = "AOM_CICP_TC_HLG" -> "kHlgTransferFunction"
    [] OTHER -> "kSRgbTransferFunction"

\* find_transfer_function: the curve of a transfer characteristic, or
\* "fatal" where the switch falls to its default and the process exits.
find_transfer_function(tc) ==
  CASE tc = "AOM_CICP_TC_BT_470_M" -> "kGamma22TransferFunction"
    [] tc = "AOM_CICP_TC_BT_470_B_G" -> "kGamma28TransferFunction"
    [] tc = "AOM_CICP_TC_SRGB" -> "kSRgbTransferFunction"
    [] tc = "AOM_CICP_TC_SMPTE_2084" -> "kPqTransferFunction"
    [] tc = "AOM_CICP_TC_HLG" -> "kHlgTransferFunction"
    [] OTHER -> "fatal"


(***************************************************************************)
(* parse_args                                                              *)
(***************************************************************************)
\* One command-line argument as arg_match sees it: the option it matches
\* ("help", "width", "height", "iso", "output", "transfer-function", or
\* "other" for none of them), its int value (arg_parse_int) and its
\* transfer characteristic (arg_parse_enum).
Arg(opt, n, tc) == [opt |-> opt, n |-> n, tc |-> tc]

\* photon_noise_args after main's memset and parse_args's default.
ArgsDefault ==
  [width |-> 0, height |-> 0, iso_setting |-> 0,
   transfer_function |-> find_transfer_function("AOM_CICP_TC_SRGB"),
   output_filename |-> "NULL"]

ParseStart ==
  [args |-> ArgsDefault, width_set |-> FALSE, height_set |-> FALSE,
   iso_set |-> FALSE, output_set |-> FALSE, exit |-> "none"]

\* The body of the for loop for one argument.
ParseOne(st, a) ==
  CASE a.opt = "help" -> [st EXCEPT !.exit = "help"]
    [] a.opt = "width" -> [st EXCEPT !.args.width = a.n, !.width_set = TRUE]
    [] a.opt = "height" -> [st EXCEPT !.args.height = a.n, !.height_set = TRUE]
    [] a.opt = "iso" -> [st EXCEPT !.args.iso_setting = a.n, !.iso_set = TRUE]
    [] a.opt = "output" -> [st EXCEPT !.args.output_filename = "noise.tbl",
                                      !.output_set = TRUE]
    [] a.opt = "transfer-function" ->
         IF find_transfer_function(a.tc) = "fatal"
           THEN [st EXCEPT !.exit = "fatal"]
           ELSE [st EXCEPT !.args.transfer_function = find_transfer_function(a.tc)]
    [] OTHER -> [st EXCEPT !.exit = "fatal"]

RECURSIVE ParseLoop(_, _, _)
ParseLoop(st, av, k) ==
  IF k > Len(av) \/ st.exit # "none" THEN st
  ELSE ParseLoop(ParseOne(st, av[k]), av, k + 1)

\* parse_args: the loop, then the four checks for a required parameter.
\* exit: "none" (returns to main), "help" (exit(EXIT_SUCCESS)), "fatal" or
\* "missing" (exit(EXIT_FAILURE)).
parse_args(av) ==
  LET st == ParseLoop(ParseStart, av, 1)
  IN  IF st.exit # "none" THEN st
      ELSE IF ~st.width_set \/ ~st.height_set \/ ~st.iso_set \/ ~st.output_set
        THEN [st EXCEPT !.exit = "missing"]
      ELSE st

(***************************************************************************)
(* generate_photon_noise                                                   *)
(***************************************************************************)
kPhotonsPerLxSPerUm2 == FInt(11260)
kEffectiveQuantumEfficiency == FRat(20, 100)
kPhotoResponseNonUniformity == FRat(5, 1000)
kInputReferredReadNoise == FRat(15, 10)

\* An exposure that rises with the ISO setting.
mid_tone_exposure_rising(iso_setting) == FDiv(FInt(iso_setting), FInt(10))
mid_tone_exposure(iso_setting) == FDiv(FInt(10), FInt(iso_setting))

pixel_area_um2(width, height) ==
  FDiv(FMul(FInt(36000), FInt(24000)), FInt(IntMul(width, height)))

mid_tone_electrons_per_pixel(width, height, iso_setting) ==
  FMul(FMul(FMul(kEffectiveQuantumEfficiency, kPhotonsPerLxSPerUm2),
            mid_tone_exposure(iso_setting)),
       pixel_area_um2(width, height))

max_electrons_per_pixel(width, height, iso_setting, tf) ==
  FDiv(mid_tone_electrons_per_pixel(width, height, iso_setting), mid_tone(tf))

num_y_points == 14

\* float x = i / (film_grain->num_y_points - 1.f);
SampleX(i) == FDiv(FInt(i), FSub(FInt(num_y_points), F1))

\* The locals of one pass of the loop, each from the ones before it.
noise_in_electrons(electrons_per_pixel) ==
  FSqrt(FAdd(FAdd(FMul(kInputReferredReadNoise, kInputReferredReadNoise),
                  electrons_per_pixel),
             FMul(FMul(FMul(kPhotoResponseNonUniformity,
                            kPhotoResponseNonUniformity),
                       electrons_per_pixel),
                  electrons_per_pixel)))
linear_noise(max_e, linear) == FDiv(noise_in_electrons(FMul(max_e, linear)), max_e)
linear_range_start(linear, noise) == maxf(F0, FSub(linear, FMul(F2, noise)))
linear_range_end(linear, noise) == minf(F1, FAdd(linear, FMul(F2, noise)))
tf_slope(tf, range_start, range_end) ==
  FDiv(FSub(from_linear(tf, range_end), from_linear(tf, range_start)),
       FSub(range_end, range_start))
encoded_noise(tf, noise, range_start, range_end) ==
  FMul(noise, tf_slope(tf, range_start, range_end))

SampleOfNoise(tf, x, linear, noise) ==
  [x |-> x, linear |-> linear,
   linear_range_start |-> linear_range_start(linear, noise),
   linear_range_end |-> linear_range_end(linear, noise),
   encoded_noise |-> encoded_noise(tf, noise, linear_range_start(linear, noise),
                                   linear_range_end(linear, noise))]
SampleOfLinear(tf, max_e, x, linear) ==
  SampleOfNoise(tf, x, linear, linear_noise(max_e, linear))
Sample(tf, max_e, i) == SampleOfLinear(tf, max_e, SampleX(i), to_linear(tf, SampleX(i)))

\* 255 * x left unrounded, for the cast to truncate.
EncodedXUnrounded(x) == FMul(FInt(255), x)

\* x = roundf(255 * x);
EncodedX(x) == FRoundf(FMul(FInt(255), x))

\* encoded_noise = minf(255.f, roundf(255 * 7.88f * encoded_noise));
QuantizedNoise(noise) ==
  minf(FInt(255), FRoundf(FMul(FMul(FInt(255), FRat(788, 100)), noise)))

\* scaling_points_y[i]: both floats cast to int.
PointOfSample(sm, ub) ==
  <<IntCast(EncodedX(sm.x), ub), IntCast(QuantizedNoise(sm.encoded_noise), ub)>>
ScalingPoint(tf, max_e, i, ub) == PointOfSample(Sample(tf, max_e, i), ub)

\* aom_film_grain_t after main's memset: the fields the tool writes.
FilmGrainZero ==
  [apply_grain |-> 0, update_parameters |-> 0,
   scaling_points_y |-> [j \in 1..14 |-> <<0, 0>>], num_y_points |-> 0,
   num_cb_points |-> 0, num_cr_points |-> 0, scaling_shift |-> 0,
   ar_coeff_lag |-> 0, ar_coeffs_cb |-> 0, ar_coeffs_cr |-> 0,
   ar_coeff_shift |-> 0, cb_mult |-> 0, cb_luma_mult |-> 0, cb_offset |-> 0,
   cr_mult |-> 0, cr_luma_mult |-> 0, cr_offset |-> 0, overlap_flag |-> 0,
   random_seed |-> 0, chroma_scaling_from_luma |-> 0]

\* The assignments after the loop with the seed taken from the first point.
FixedFieldsSeededByInput(fg) ==
  [fg EXCEPT !.apply_grain = 1, !.update_parameters = 1,
             !.num_cb_points = 0, !.num_cr_points = 0, !.scaling_shift = 8,
             !.ar_coeff_lag = 0, !.ar_coeffs_cb = 0, !.ar_coeffs_cr = 0,
             !.ar_coeff_shift = 6, !.cb_mult = 0, !.cb_luma_mult = 0,
             !.cb_offset = 0, !.cr_mult = 0, !.cr_luma_mult = 0,
             !.cr_offset = 0, !.overlap_flag = 1,
             !.random_seed = fg.scaling_points_y[1][2],
             !.chroma_scaling_from_luma = 0]

\* The assignments after the loop.
FixedFields(fg) ==
  [fg EXCEPT !.apply_grain = 1, !.update_parameters = 1,
             !.num_cb_points = 0, !.num_cr_points = 0, !.scaling_shift = 8,
             !.ar_coeff_lag = 0, !.ar_coeffs_cb = 0, !.ar_coeffs_cr = 0,
             !.ar_coeff_shift = 6, !.cb_mult = 0, !.cb_luma_mult = 0,
             !.cb_offset = 0, !.cr_mult = 0, !.cr_luma_mult = 0,
             !.cr_offset = 0, !.overlap_flag = 1, !.random_seed = 7391,
             !.chroma_scaling_from_luma = 0]


(***************************************************************************)
(* The film grain table (aom_dsp/grain_table.h)                            *)
(***************************************************************************)
\* An int64 time stamp as four 16-bit words, most significant first.
TimeZero == <<0, 0, 0, 0>>
\* 9223372036854775807 = 0x7FFF FFFF FFFF FFFF
TimeMax == <<32767, 65535, 65535, 65535>>

\* aom_film_grain_table_append: one more entry at the tail of the list.
table_append(t, time_stamp, end_time, grain) ==
  Append(t, [start_time |-> time_stamp, end_time |-> end_time, params |-> grain])

\* aom_film_grain_table_free: the list is emptied.
table_free(t) == <<>>

(***************************************************************************)
(* main                                                                    *)
(***************************************************************************)
VARIABLES
  pc,                 \* where main is: "start", "generate", "loop", "append",
                      \* "write", "free", "exit"; "probe"/"probed" when a
                      \* function is evaluated on its own
  argv,               \* the command line, argv[1..]
  build,              \* what this build's float-to-int conversion yields
                      \* where C leaves it undefined
  photon_noise_args,  \* main's photon_noise_args
  film_grain,         \* main's film_grain
  film_grain_table,   \* main's film_grain_table: the list of its entries
  locals,             \* generate_photon_noise's locals: the two set before
                      \* the loop and the last pass's linear range
  i,                  \* generate_photon_noise's loop index
  write_status,       \* what aom_film_grain_table_write returned
  output_file,        \* the file at output_filename
  exit_status,        \* the process's exit status
  calls,              \* how often this run has called each collaborator
  run,                \* which invocation of the tool this is
  prev,               \* the descriptor of the invocation before
  probe               \* a function's arguments and results (other specs)

vars == <<pc, argv, build, photon_noise_args, film_grain, film_grain_table,
          locals, i, write_status, output_file, exit_status, calls, run,
          prev, probe>>

\* How many times the tool is invoked with the same command line.
MaxRuns == 2

\* (width, height, iso) triples on the command line: usual ones, ones whose
\* product width * height leaves int, and ones that are not positive.
Triples ==
  {<<3840, 2160, 25600>>, <<3840, 2160, 100>>, <<1, 1, 1>>,
   <<46341, 46341, 1>>, <<65536, 65536, 100>>,
   <<0, 2160, 100>>, <<1920, -1080, 100>>, <<3840, 2160, 0>>}

\* Transfer characteristics: the five of the option table and two others
\* of aom_transfer_characteristics_t.  arg_parse_enum (common/args.c) is
\* outside this file: it is taken to return any value of the type.
ListedTcs == {"AOM_CICP_TC_BT_470_M", "AOM_CICP_TC_BT_470_B_G",
              "AOM_CICP_TC_SRGB", "AOM_CICP_TC_SMPTE_2084", "AOM_CICP_TC_HLG"}
OtherTcs == {"AOM_CICP_TC_BT_709", "AOM_CICP_TC_LINEAR"}

W(n) == Arg("width", n, "")
H(n) == Arg("height", n, "")
I(n) == Arg("iso", n, "")
O == Arg("output", 0, "")
T(tc) == Arg("transfer-function", 0, tc)

CommandLines ==
  {<<W(t[1]), H(t[2]), I(t[3]), O>> : t \in Triples}
  \cup {<<T(tc), W(t[1]), H(t[2]), I(t[3]), O>> : t \in Triples, tc \in ListedTcs}
  \cup {<<W(3840), H(2160), T(tc), I(100), O>> : tc \in OtherTcs}
  \cup {<<T("AOM_CICP_TC_HLG"), W(3840), H(2160), I(100), O, T("AOM_CICP_TC_SMPTE_2084")>>,
        <<W(3840), H(2160), I(100)>>, <<W(3840), H(2160), O>>,
        <<W(3840), I(100), O>>, <<H(2160), I(100), O>>, <<>>,
        <<Arg("help", 0, "")>>, <<W(3840), Arg("help", 0, ""), H(2160)>>,
        <<W(3840), H(2160), I(100), O, Arg("other", 0, "")>>}

\* (int) of a NaN: INT_MIN (x86) or 0 (Arm).
UbCasts == {-2147483647 - 1, 0}

NoLocals == [pixel_area_um2 |-> F0, max_electrons_per_pixel |-> F0,
             linear_range_start |-> F0, linear_range_end |-> F0]
NoCalls == [generate |-> 0, append |-> 0, write |-> 0, free |-> 0]
NoFile == [written |-> FALSE, entries |-> <<>>]
NoPrev == [valid |-> FALSE, film_grain |-> FilmGrainZero]
NoProbe == [fn |-> "none"]

\* photon_noise_args after main's memset.
ArgsZero == [width |-> 0, height |-> 0, iso_setting |-> 0,
             transfer_function |-> "NULL", output_filename |-> "NULL"]

\* main's locals after its memsets, before anything ran.
Memset ==
  /\ photon_noise_args = ArgsZero
  /\ film_grain = FilmGrainZero
  /\ film_grain_table = <<>>
  /\ locals = NoLocals
  /\ i = 0
  /\ write_status = "none"
  /\ output_file = NoFile
  /\ exit_status = "running"
  /\ calls = NoCalls

Init ==
  /\ pc = "start"
  /\ Memset
  /\ argv \in CommandLines
  /\ build \in UbCasts
  /\ run = 1
  /\ prev = NoPrev
  /\ probe = NoProbe

\* parse_args(argc, argv, &photon_noise_args), with its exits.
ParseArgs ==
  /\ pc = "start"
  /\ LET st == parse_args(argv)
     IN  /\ photon_noise_args' = st.args
         /\ pc' = IF st.exit = "none" THEN "generate" ELSE "exit"
         /\ exit_status' = CASE st.exit = "none" -> exit_status
                             [] st.exit = "help" -> "EXIT_SUCCESS"
                             [] OTHER -> "EXIT_FAILURE"
  /\ UNCHANGED <<argv, build, film_grain, film_grain_table, locals, i,
                 write_status, output_file, calls, run, prev, probe>>

\* generate_photon_noise up to the loop.
GenerateStart ==
  /\ pc = "generate"
  /\ locals' = [pixel_area_um2 |->
                  pixel_area_um2(photon_noise_args.width, photon_noise_args.height),
                max_electrons_per_pixel |->
                  max_electrons_per_pixel(photon_noise_args.width,
                                          photon_noise_args.height,
                                          photon_noise_args.iso_setting,
                                          photon_noise_args.transfer_function),
                linear_range_start |-> F0, linear_range_end |-> F0]
  /\ film_grain' = [film_grain EXCEPT !.num_y_points = num_y_points]
  /\ i' = 0
  /\ pc' = "loop"
  /\ UNCHANGED <<argv, build, photon_noise_args, film_grain_table,
                 write_status, output_file, exit_status, calls, run, prev, probe>>

\* What one pass of the loop leaves, given its locals sm.
StoreSample(sm) ==
  /\ film_grain' = [film_grain EXCEPT !.scaling_points_y[i + 1] =
                      PointOfSample(sm, build)]
  /\ locals' = [locals EXCEPT !.linear_range_start = sm.linear_range_start,
                              !.linear_range_end = sm.linear_range_end]

\* One pass of the loop.
LoopStep ==
  /\ pc = "loop"
  /\ i < film_grain.num_y_points
  /\ StoreSample(Sample(photon_noise_args.transfer_function,
                        locals.max_electrons_per_pixel, i))
  /\ i' = i + 1
  /\ UNCHANGED <<pc, argv, build, photon_noise_args, film_grain_table,
                 write_status, output_file, exit_status, calls, run, prev, probe>>

\* The loop's exit and the rest of generate_photon_noise.
GenerateFinish ==
  /\ pc = "loop"
  /\ ~(i < film_grain.num_y_points)
  /\ film_grain' = FixedFields(film_grain)
  /\ calls' = [calls EXCEPT !.generate = @ + 1]
  /\ pc' = "append"
  /\ UNCHANGED <<argv, build, photon_noise_args, film_grain_table, locals, i,
                 write_status, output_file, exit_status, run, prev, probe>>

\* aom_film_grain_table_append(&film_grain_table, 0, 9223372036854775807ull, &film_grain)
AppendEntry ==
  /\ pc = "append"
  /\ film_grain_table' = table_append(film_grain_table, TimeZero, TimeMax, film_grain)
  /\ calls' = [calls EXCEPT !.append = @ + 1]
  /\ pc' = "write"
  /\ UNCHANGED <<argv, build, photon_noise_args, film_grain, locals, i,
                 write_status, output_file, exit_status, run, prev, probe>>

\* aom_film_grain_table_write(...): it reports AOM_CODEC_OK or an error.
WriteTable ==
  /\ pc = "write"
  /\ \E status \in {"AOM_CODEC_OK", "AOM_CODEC_ERROR"} :
       /\ write_status' = status
       /\ output_file' = IF status = "AOM_CODEC_OK"
                           THEN [written |-> TRUE, entries |-> film_grain_table]
                           ELSE output_file
  /\ calls' = [calls EXCEPT !.write = @ + 1]
  /\ pc' = "free"
  /\ UNCHANGED <<argv, build, photon_noise_args, film_grain, film_grain_table,
                 locals, i, exit_status, run, prev, probe>>

\* A return value that ignores the write's status.
ExitStatusIgnoringWrite(status) == "EXIT_SUCCESS"

\* main's return value on either side of the test of the write's status.
ExitStatus(status) == IF status # "AOM_CODEC_OK" THEN "EXIT_FAILURE" ELSE "EXIT_SUCCESS"

\* aom_film_grain_table_free on either path, then the return.
FreeAndReturn ==
  /\ pc = "free"
  /\ film_grain_table' = table_free(film_grain_table)
  /\ calls' = [calls EXCEPT !.free = @ + 1]
  /\ exit_status' = ExitStatus(write_status)
  /\ pc' = "exit"
  /\ UNCHANGED <<argv, build, photon_noise_args, film_grain, locals, i,
                 write_status, output_file, run, prev, probe>>

\* The tool is invoked again with the same command line: a new process,
\* set up as Init sets up the first.  The descriptor of the run before is
\* kept for comparison.
Rerun ==
  /\ pc = "exit"
  /\ run < MaxRuns
  /\ run' = run + 1
  /\ prev' = IF calls.generate > 0
               THEN [valid |-> TRUE, film_grain |-> film_grain]
               ELSE NoPrev
  /\ pc' = "start"
  /\ photon_noise_args' = ArgsZero
  /\ film_grain' = FilmGrainZero
  /\ film_grain_table' = <<>>
  /\ locals' = NoLocals
  /\ i' = 0
  /\ write_status' = "none"
  /\ output_file' = NoFile
  /\ exit_status' = "running"
  /\ calls' = NoCalls
  /\ UNCHANGED <<argv, build, probe>>

Next ==
  \/ ParseArgs
  \/ GenerateStart
  \/ LoopStep
  \/ GenerateFinish
  \/ AppendEntry
  \/ WriteTable
  \/ FreeAndReturn
  \/ Rerun

Spec == Init /\ [][Next]_vars

(***************************************************************************)
(* The first lines of generate_photon_noise on their own: the full-scale   *)
(* electron count for two ISO settings and for two curves.                 *)
(***************************************************************************)
\* (width, height): usual sizes, and sizes whose int product is negative
\* (46341^2), zero (65536^2) and positive but not the true product.
Sizes == {<<3840, 2160>>, <<1, 1>>, <<46341, 46341>>, <<65536, 65536>>,
          <<65536, 65537>>}

\* ISO settings, among them neighbours that (float) or the division
\* 10 / iso_setting cannot tell apart.
IsoSettings == {1, 100, 200, 25600, 4691415, 4691416, 16777216, 16777217}

ElectronInputs ==
  {[fn |-> "input", width |-> sz[1], height |-> sz[2], tf |-> tf,
    iso_a |-> a, iso_b |-> b] :
     sz \in Sizes, tf \in Curves,
     a \in IsoSettings, b \in {c \in IsoSettings : c > 0}}

InitElectrons ==
  /\ pc = "probe"
  /\ Memset
  /\ argv = <<>>
  /\ build = 0
  /\ run = 1
  /\ prev = NoPrev
  /\ probe \in {in \in ElectronInputs : in.iso_a < in.iso_b}

Idle == UNCHANGED <<argv, build, photon_noise_args, film_grain, film_grain_table,
                    locals, i, write_status, output_file, exit_status, calls,
                    run, prev>>

\* max_electrons_per_pixel for iso_a and for iso_b, all else the same.
ElectronsByIso ==
  /\ pc = "probe"
  /\ probe' = [fn |-> "iso", width |-> probe.width, height |-> probe.height,
               tf |-> probe.tf, iso_a |-> probe.iso_a, iso_b |-> probe.iso_b,
               product |-> IntMul(probe.width, probe.height),
               at_a |-> max_electrons_per_pixel(probe.width, probe.height,
                                                probe.iso_a, probe.tf),
               at_b |-> max_electrons_per_pixel(probe.width, probe.height,
                                                probe.iso_b, probe.tf)]
  /\ pc' = "probed"
  /\ Idle

\* max_electrons_per_pixel, and the mid-tone count it divides, for the
\* curve chosen and for sRGB; width, height and iso_a the same.
ElectronsByCurve ==
  /\ pc = "probe"
  /\ probe' = [fn |-> "curve", width |-> probe.width, height |-> probe.height,
               tf |-> probe.tf, iso_a |-> probe.iso_a, iso_b |-> probe.iso_b,
               product |-> IntMul(probe.width, probe.height),
               mid_tone_electrons |->
                 mid_tone_electrons_per_pixel(probe.width, probe.height,
                                              probe.iso_a),
               with_tf |-> max_electrons_per_pixel(probe.width, probe.height,
                                                   probe.iso_a, probe.tf),
               with_srgb |-> max_electrons_per_pixel(probe.width, probe.height,
                                                     probe.iso_a,
                                                     "kSRgbTransferFunction")]
  /\ pc' = "probed"
  /\ Idle

NextElectrons == ElectronsByIso \/ ElectronsByCurve

SpecElectrons == InitElectrons /\ [][NextElectrons]_vars

(***************************************************************************)
(* The transfer functions on their own: each curve there and back from     *)
(* the points k / GridN of [0, 1], and at its branch point.                *)
(***************************************************************************)
GridN == 16

GridPoint(k) == FDiv(FInt(k), FInt(GridN))

InitCurves ==
  /\ pc = "probe"
  /\ Memset
  /\ argv = <<>>
  /\ build = 0
  /\ run = 1
  /\ prev = NoPrev
  /\ probe \in {[fn |-> "input", tf |-> tf, k |-> k] : tf \in Curves, k \in 0..GridN}

\* from_linear(to_linear(x)) for the encoded value x = k / GridN
EncodedRoundTrip ==
  /\ pc = "probe"
  /\ probe' = [fn |-> "encoded", tf |-> probe.tf, k |-> probe.k,
               x |-> GridPoint(probe.k),
               back |-> from_linear(probe.tf, to_linear(probe.tf, GridPoint(probe.k)))]
  /\ pc' = "probed"
  /\ Idle

\* to_linear(from_linear(y)) for the linear value y = k / GridN
LinearRoundTrip ==
  /\ pc = "probe"
  /\ probe' = [fn |-> "linear", tf |-> probe.tf, k |-> probe.k,
               x |-> GridPoint(probe.k),
               back |-> to_linear(probe.tf, from_linear(probe.tf, GridPoint(probe.k)))]
  /\ pc' = "probed"
  /\ Idle

\* The constants the piecewise curves compare against.
kSrgbEncodedBranch == FRat(4045, 100000)
kSrgbLinearBranch == FRat(31308, 10000000)
kHlgEncodedBranch == FRat(1, 2)
kHlgLinearBranch == FDiv(F1, FInt(12))

\* A piecewise curve at its two branch points: the encoded one decoded and
\* the linear one encoded.  For HLG these are the points of the OETF, the
\* OOTF's power being applied outside the branch.
BranchPoints ==
  /\ pc = "probe"
  /\ probe.tf \in {"kSRgbTransferFunction", "kHlgTransferFunction"}
  /\ probe' = IF probe.tf = "kSRgbTransferFunction"
                THEN [fn |-> "branch", tf |-> probe.tf, k |-> probe.k,
                      encoded |-> kSrgbEncodedBranch, linear |-> kSrgbLinearBranch,
                      decoded |-> srgb_to_linear(kSrgbEncodedBranch),
                      reencoded |-> srgb_from_linear(kSrgbLinearBranch)]
                ELSE [fn |-> "branch", tf |-> probe.tf, k |-> probe.k,
                      encoded |-> kHlgEncodedBranch, linear |-> kHlgLinearBranch,
                      decoded |-> hlg_inverse_oetf(kHlgEncodedBranch),
                      reencoded |-> hlg_oetf(kHlgLinearBranch)]
  /\ pc' = "probed"
  /\ Idle

NextCurves == EncodedRoundTrip \/ LinearRoundTrip \/ BranchPoints

SpecCurves == InitCurves /\ [][NextCurves]_vars

(***************************************************************************)
(* Properties                                                              *)
(***************************************************************************)
\* generate_photon_noise has returned in this run.
Generated == calls.generate > 0

\* parse_args returned to main in this run.
PastParsing == pc # "start" /\ parse_args(argv).exit = "none"

\* The command line makes parse_args look up a transfer characteristic
\* outside the option's list before anything else ends the parse.
UnlistedLookup ==
  \E k \in 1..Len(argv) :
    /\ argv[k].opt = "transfer-function"
    /\ argv[k].tc \notin ListedTcs
    /\ \A j \in 1..(k - 1) :
         /\ argv[j].opt \notin {"help", "other"}
         /\ argv[j].opt = "transfer-function" => argv[j].tc \in ListedTcs

\* C1: whatever the input, the descriptor generate_photon_noise leaves has
\* exactly 14 luma points whose x-coordinates are round(255 * i / 13) for
\* i = 0..13: strictly increasing, within [0, 255], the first 0 and the last
\* 255; and each pass of the loop stores its point's x as that value.
C1_XCoordinates ==
  LET x(j) == film_grain.scaling_points_y[j][1]
      round_255i_over_13(n) == (510 * n + 13) \div 26
  IN  /\ pc = "loop" => \A j \in 1..i : x(j) = round_255i_over_13(j - 1)
      /\ Generated =>
           /\ film_grain.num_y_points = 14
           /\ Len(film_grain.scaling_points_y) = 14
           /\ \A j \in 1..14 : x(j) = round_255i_over_13(j - 1) /\ x(j) \in 0..255
           /\ \A j \in 1..13 : x(j) < x(j + 1)
           /\ x(1) = 0
           /\ x(14) = 255

C1_Witness ==
  /\ pc = "append"
  /\ Generated
  /\ photon_noise_args.width = 46341
  /\ film_grain.scaling_points_y[2][1] = 20

\* C2: for positive width, height and iso_setting, every noise amplitude
\* generate_photon_noise stores in a scaling point lies in [0, 255].
C2_AmplitudesInRange ==
  (/\ Generated
   /\ photon_noise_args.width > 0
   /\ photon_noise_args.height > 0
   /\ photon_noise_args.iso_setting > 0)
    => \A j \in 1..14 : film_grain.scaling_points_y[j][2] \in 0..255

C4_LookupTotal ==
  /\ find_transfer_function("AOM_CICP_TC_BT_470_M") = "kGamma22TransferFunction"
  /\ find_transfer_function("AOM_CICP_TC_BT_470_B_G") = "kGamma28TransferFunction"
  /\ find_transfer_function("AOM_CICP_TC_SRGB") = "kSRgbTransferFunction"
  /\ find_transfer_function("AOM_CICP_TC_SMPTE_2084") = "kPqTransferFunction"
  /\ find_transfer_function("AOM_CICP_TC_HLG") = "kHlgTransferFunction"
  /\ UnlistedLookup =>
       /\ pc \in {"start", "exit"}
       /\ calls = NoCalls
       /\ film_grain_table = <<>>
       /\ ~output_file.written
       /\ pc = "exit" => exit_status = "EXIT_FAILURE"

C4_Witness ==
  /\ pc = "exit"
  /\ UnlistedLookup
  /\ exit_status = "EXIT_FAILURE"
  /\ photon_noise_args.width = 3840

\* C5: whenever a run is in or past generate_photon_noise, width, height
\* and iso_setting are positive and the transfer function is one of the
\* five curves.
C5_ValidatedInput ==
  (pc \in {"generate", "loop"} \/ Generated) =>
    /\ photon_noise_args.width > 0
    /\ photon_noise_args.height > 0
    /\ photon_noise_args.iso_setting > 0
    /\ photon_noise_args.transfer_function \in Curves

\* C6: a run past argument parsing generates one descriptor, then appends
\* it once as the table's only entry, for time stamps 0 to 2^63 - 1, then
\* writes the table once, then frees it; it exits with success exactly when
\* the write reported OK, and the table is freed on either path.  A run
\* that ends in parse_args calls none of them.
C6_OneEntryThenWrite ==
  LET entry == [start_time |-> <<0, 0, 0, 0>>,
                end_time |-> <<2^15 - 1, 2^16 - 1, 2^16 - 1, 2^16 - 1>>,
                params |-> film_grain]
  IN  /\ ~PastParsing => calls = NoCalls /\ ~output_file.written
      /\ PastParsing =>
           /\ pc \in {"generate", "loop", "append", "write", "free", "exit"}
           /\ calls.generate = IF pc \in {"generate", "loop"} THEN 0 ELSE 1
           /\ calls.append = IF pc \in {"generate", "loop", "append"} THEN 0 ELSE 1
           /\ calls.write = IF pc \in {"free", "exit"} THEN 1 ELSE 0
           /\ calls.free = IF pc = "exit" THEN 1 ELSE 0
           /\ pc \in {"generate", "loop", "append"} => film_grain_table = <<>>
           /\ pc \in {"write", "free"} => film_grain_table = <<entry>>
           /\ calls.write = 0 => ~output_file.written /\ write_status = "none"
           /\ output_file.written =>
                output_file.entries = <<entry>> /\ write_status = "AOM_CODEC_OK"
           /\ pc = "exit" =>
                /\ film_grain_table = <<>>
                /\ exit_status \in {"EXIT_SUCCESS", "EXIT_FAILURE"}
                /\ exit_status = "EXIT_SUCCESS" <=> write_status = "AOM_CODEC_OK"

C6_Witness ==
  /\ pc = "exit"
  /\ PastParsing
  /\ write_status = "AOM_CODEC_ERROR"
  /\ exit_status = "EXIT_FAILURE"
  /\ calls = [generate |-> 1, append |-> 1, write |-> 1, free |-> 1]

\* C7 as stated: for positive iso settings a < b, width, height and curve
\* the same, the full-scale electron count for b is strictly smaller than
\* the one for a.
C7_StrictlyDecreasing ==
  (pc = "probed" /\ probe.fn = "iso") => FLt(probe.at_b, probe.at_a)

\* C7: for positive width, height and iso settings a < b, the full-scale
\* electron count for b has the sign of the one for a and is never larger
\* in magnitude; it is never larger where the int product width * height
\* is positive, and strictly smaller in magnitude where b >= 2a and the
\* count is finite.
C7_NeverLarger ==
  (pc = "probed" /\ probe.fn = "iso") =>
    /\ ~IsNaN(probe.at_a) /\ ~IsNaN(probe.at_b)
    /\ probe.at_a.s = probe.at_b.s
    /\ ~MagLt(probe.at_a, probe.at_b)
    /\ probe.product > 0 => FLe(probe.at_b, probe.at_a)
    /\ (probe.iso_b >= 2 * probe.iso_a /\ IsFin(probe.at_a)) =>
         MagLt(probe.at_b, probe.at_a)

C7_Witness ==
  /\ pc = "probed"
  /\ probe.fn = "iso"
  /\ probe.width = 3840 /\ probe.height = 2160
  /\ probe.iso_a = 4691415 /\ probe.iso_b = 4691416
  /\ IsFin(probe.at_a)
  /\ probe.at_a = probe.at_b

\* C8: the full-scale electron count is the mid-tone count divided by the
\* curve's mid_tone (0.18 for gamma 2.2, gamma 2.8 and sRGB, 26/10000 for
\* PQ, 26/1000 for HLG), and for the same positive width, height and
\* iso_setting it is strictly larger with PQ than with sRGB.
C8_PqAboveSrgb ==
  (pc = "probed" /\ probe.fn = "curve") =>
    /\ probe.with_tf =
         FDiv(probe.mid_tone_electrons,
              CASE probe.tf = "kPqTransferFunction" -> FDiv(FInt(26), FInt(10000))
                [] probe.tf = "kHlgTransferFunction" -> FDiv(FInt(26), FInt(1000))
                [] OTHER -> FRat(18, 100))
    /\ probe.tf = "kPqTransferFunction" => FGt(probe.with_tf, probe.with_srgb)

\* C9: each of the five curves, applied there and back to a point of
\* [0, 1], returns the point to within 1/1000, in either order; and the
\* piecewise curves map their branch points to each other (sRGB 0.04045
\* encoded and 0.0031308 linear, HLG 0.5 encoded and 1/12 linear) to within
\* 1/1000000.
C9_InversePair ==
  LET Within(a, b, tol) ==
        /\ IsFin(a) /\ IsFin(b)
        /\ FLe(FSub(a, b), tol) /\ FLe(FSub(b, a), tol)
  IN  pc = "probed" =>
        /\ probe.fn \in {"encoded", "linear"} =>
             Within(probe.back, probe.x, FRat(1, 1000))
        /\ probe.fn = "branch" =>
             /\ Within(probe.decoded, probe.linear, FRat(1, 1000000))
             /\ Within(probe.reencoded, probe.encoded, FRat(1, 1000000))

C9_Witness ==
  /\ pc = "probed"
  /\ probe.fn = "linear"
  /\ probe.tf = "kPqTransferFunction"
  /\ probe.k = 8
  /\ probe.back # probe.x
  /\ FLe(FSub(probe.back, probe.x), FRat(1, 1000))
  /\ FLe(FSub(probe.x, probe.back), FRat(1, 1000))

\* C10: for positive width and height the int product width * height that
\* generate_photon_noise divides by is the true product (positive, and
\* divisible back to its factors), so the pixel area is finite and positive.
C10_ProductNeverWraps ==
  (/\ pc \in {"loop", "append", "write", "free"}
   /\ photon_noise_args.width > 0
   /\ photon_noise_args.height > 0) =>
    LET product == IntMul(photon_noise_args.width, photon_noise_args.height)
    IN  /\ product > 0
        /\ product % photon_noise_args.width = 0
        /\ product \div photon_noise_args.width = photon_noise_args.height
        /\ IsFin(locals.pixel_area_um2)
        /\ locals.pixel_area_um2.s = 1
        /\ locals.pixel_area_um2.m > 0

\* C11: for positive width, height and iso_setting, the linear range each
\* pass of the loop takes its slope over is non-empty and inside [0, 1]:
\* 0 <= linear_range_start < linear_range_end <= 1.
C11_RangeNonEmpty ==
  (/\ pc = "loop"
   /\ i > 0
   /\ photon_noise_args.width > 0
   /\ photon_noise_args.height > 0
   /\ photon_noise_args.iso_setting > 0) =>
    /\ FLe(F0, locals.linear_range_start)
    /\ FLt(locals.linear_range_start, locals.linear_range_end)
    /\ FLe(locals.linear_range_end, F1)

=============================================================================
